---- MODULE Spec2Model ----
(***************************************************************************)
(* Model of src/DynamoPaginatedRead/app.js: keyset-paginated reads of a    *)
(* customer's orders with a cache of DynamoDB LastEvaluatedKey cursors, a  *)
(* background prefetch of the next cursors and invalidation on write.      *)
(*                                                                         *)
(* Node.js runs one handler segment at a time; a segment ends at an await  *)
(* of docClient.send.  Every request occupies one slot of `tasks`: a page  *)
(* request first runs getCustomerPageItems (phase "get"), answers, and the *)
(* unawaited prefetchNextPages it started continues in the same slot       *)
(* (phase "prefetch").  The store evaluates a pending command in a step of *)
(* its own, so that a write can fall between the evaluation of a query and *)
(* the resumption of the code that awaits it.                              *)
(***************************************************************************)
EXTENDS Integers, Sequences, FiniteSets, TLC

\* ---------------------------------------------------------------- constants
PREFETCH_PAGES == 3
STD_TTL == 600
\* JavaScript undefined: no cursor (let lastEvaluatedKey; / no LastEvaluatedKey)
Absent == 0

\* ---------------------------------------------------------------- bounds
Customers == {"a", "b"}
Limits == {1, 2}
Slots == {1, 2}
MaxPage == 3
MaxDate == 4
MaxRequests == 2

Pages == 1..MaxPage
Dates == 1..MaxDate
\* page numbers a cache key can carry: requested pages and prefetched ones
KeyPages == 1..(MaxPage + PREFETCH_PAGES + 1)
NoVer == MaxDate + 1

VARIABLES
  store,    \* customerId -> set of OrderDate values of the customer's orders
  cache,    \* node-cache: key string -> [v: cursor, t: expiry, ver: ghost]
  now,      \* clock in seconds
  tasks,    \* slot -> request in progress
  acked,    \* ghost: customerId -> store version of the last acknowledged write
  fresh,    \* ghost: customerId -> invalidated and no page request started since
  nreq      \* ghost: number of requests received

vars == <<store, cache, now, tasks, acked, fresh, nreq>>

\* ---------------------------------------------------------------- store
Max(S) == CHOOSE m \in S : \A x \in S : x <= m

Min2(a, b) == IF a <= b THEN a ELSE b

RECURSIVE TakeDesc(_, _)
\* ScanIndexForward: false with Limit: the first n items in descending order
TakeDesc(S, n) ==
  IF n = 0 \/ S = {} THEN <<>>
  ELSE LET m == Max(S) IN <<m>> \o TakeDesc(S \ {m}, n - 1)

\* One Query on the CustomerID-OrderDate index.  DynamoDB evaluates at most
\* Limit items after ExclusiveStartKey and reports LastEvaluatedKey when it
\* stopped because the limit was reached.
queryCustomerOrders(part, limit, exclusiveStartKey) ==
  LET cand == {d \in part : exclusiveStartKey = Absent \/ d < exclusiveStartKey}
      items == TakeDesc(cand, limit)
  IN [ok |-> TRUE,
      Items |-> items,
      LastEvaluatedKey |-> IF Len(items) = limit THEN items[Len(items)] ELSE Absent]

StoreError == [ok |-> FALSE, Items |-> <<>>, LastEvaluatedKey |-> Absent]

\* ---------------------------------------------------------------- cache
\* variant: the page size left out of the key
CacheKeyNoLimit(customerId, page, limit) ==
  "customer_" \o customerId \o "_lastEvaluatedKey_" \o ToString(page)

\* `customer_${customerId}_lastEvaluatedKey_${page}_${limit}`
CacheKey(customerId, page, limit) ==
  "customer_" \o customerId \o "_lastEvaluatedKey_" \o ToString(page)
     \o "_" \o ToString(limit)

\* variant: an entry holding undefined is told apart from a missing one
CacheGetNull(c, key) ==
  IF key \in DOMAIN c /\ c[key].t >= now
    THEN (IF c[key].v = Absent THEN -1 ELSE c[key].v)
    ELSE Absent

\* variant: the expiry of an entry is ignored
CacheGetNoExpiry(c, key) ==
  IF key \in DOMAIN c THEN c[key].v ELSE Absent

\* node-cache get: the value of a live entry, undefined otherwise
CacheGet(c, key) ==
  IF key \in DOMAIN c /\ c[key].t >= now THEN c[key].v ELSE Absent

\* node-cache get deletes the entry it finds expired
CacheAfterGet(c, key) ==
  IF key \in DOMAIN c /\ c[key].t < now
    THEN [x \in DOMAIN c \ {key} |-> c[x]]
    ELSE c

\* node-cache set: overwrite, expiry restarts from now
CacheSet(c, key, value, ver) ==
  [x \in DOMAIN c \cup {key} |->
     IF x = key THEN [v |-> value, t |-> now + STD_TTL, ver |-> ver] ELSE c[x]]

StartsWith(s, p) == Len(s) >= Len(p) /\ SubSeq(s, 1, Len(p)) = p

\* variant: only the keys of the customer's first page are deleted
invalidateCustomerCachePageOne(c, customerId) ==
  LET customerKeys ==
        {key \in DOMAIN c :
           StartsWith(key, "customer_" \o customerId \o "_lastEvaluatedKey_1_")}
  IN [x \in DOMAIN c \ customerKeys |-> c[x]]

\* invalidateCustomerCache: delete every key with the customer's prefix
invalidateCustomerCache(c, customerId) ==
  LET customerKeys ==
        {key \in DOMAIN c :
           StartsWith(key, "customer_" \o customerId \o "_lastEvaluatedKey_")}
  IN [x \in DOMAIN c \ customerKeys |-> c[x]]

\* ---------------------------------------------------------------- tasks
NoResult == [ok |-> FALSE, Items |-> <<>>, LastEvaluatedKey |-> Absent]
NoResp == [status |-> 0, orders |-> <<>>, hasNextPage |-> FALSE]

IdleTask ==
  [pc |-> "idle", phase |-> "none", customerId |-> "", page |-> 0, limit |-> 0,
   lastEvaluatedKey |-> Absent, currentPage |-> 0, i |-> 0,
   result |-> NoResult, resp |-> NoResp, date |-> 0,
   fetches |-> 0, pfetches |-> 0, startKey |-> Absent, failed |-> FALSE,
   started |-> FALSE, pfFrom |-> 0, pfKey |-> Absent, stopped |-> FALSE,
   removed |-> 0, lookup |-> "none", cacheErr |-> FALSE, present |-> FALSE,
   ver |-> NoVer]

\* a request is taken by the lowest slot that serves none
Free(t) ==
  /\ nreq < MaxRequests
  /\ tasks[t].pc \in {"idle", "done"}
  /\ \A u \in Slots : u < t => tasks[u].pc \notin {"idle", "done"}

Init ==
  /\ \E n \in 0..MaxDate : store = [k \in Customers |-> 1..n]
  /\ cache = <<>>
  /\ now = 0
  /\ tasks = [t \in Slots |-> IdleTask]
  /\ acked = [k \in Customers |-> 0]
  /\ fresh = [k \in Customers |-> FALSE]
  /\ nreq = 0

\* ---------------------------------------------------------------- page request
\* the cursor getCustomerPageItems starts from: the cached LastEvaluatedKey
\* of the previous page, undefined for page 1 or on a miss
StartCursor(c, customerId, page, limit) ==
  IF page > 1 THEN CacheGet(c, CacheKey(customerId, page - 1, limit)) ELSE Absent

\* ghost: what the cache holds under the key getCustomerPageItems looks up
Lookup(c, key, page) ==
  IF page <= 1 THEN "none"
  ELSE IF key \notin DOMAIN c THEN "miss"
  ELSE IF c[key].t < now THEN "expired"
  ELSE IF c[key].v = Absent THEN "absent"
  ELSE "hit"

\* app.get('/orders/:customerId') up to the first await in getCustomerPageItems
StartGet(t, customerId, page, limit) ==
  /\ Free(t)
  /\ LET cacheKey == CacheKey(customerId, page - 1, limit)
         lek == StartCursor(cache, customerId, page, limit)
         hit == page > 1 /\ lek # Absent
     IN /\ cache' = IF page > 1 THEN CacheAfterGet(cache, cacheKey) ELSE cache
        /\ tasks' = [tasks EXCEPT ![t] =
             [IdleTask EXCEPT !.pc = "awaiting", !.phase = "get",
                !.customerId = customerId, !.page = page, !.limit = limit,
                !.lastEvaluatedKey = lek, !.currentPage = 1,
                !.fetches = 1, !.startKey = lek,
                !.lookup = Lookup(cache, cacheKey, page),
                !.ver = IF hit THEN cache[cacheKey].ver ELSE NoVer]]
  /\ fresh' = [fresh EXCEPT ![customerId] = FALSE]
  /\ nreq' = nreq + 1
  /\ UNCHANGED <<store, now, acked>>

\* docClient.send(QueryCommand): the store evaluates the pending query
StoreQuery(t) ==
  /\ tasks[t].pc = "awaiting"
  /\ tasks[t].phase \in {"get", "prefetch"}
  /\ LET k == tasks[t].customerId IN
     tasks' = [tasks EXCEPT
        ![t].pc = "ready",
        ![t].result = queryCustomerOrders(store[k], tasks[t].limit,
                                          tasks[t].lastEvaluatedKey),
        ![t].ver = Min2(tasks[t].ver, Cardinality(store[k]))]
  /\ UNCHANGED <<store, cache, now, acked, fresh, nreq>>

\* docClient.send rejects
StoreFail(t) ==
  /\ tasks[t].pc = "awaiting"
  /\ tasks' = [tasks EXCEPT ![t].pc = "ready", ![t].result = StoreError]
  /\ UNCHANGED <<store, cache, now, acked, fresh, nreq>>

\* variant: the loop has no bound on i
PrefetchContinuesNoCap(i, lek) == lek # Absent

\* the loop of prefetchNextPages goes on to iteration i with cursor lek
PrefetchContinues(i, lek) == i <= PREFETCH_PAGES /\ lek # Absent

\* prefetchNextPages(customerId, page, limit, startKey), called and not awaited
\* by the handler: it runs up to the await of its first iteration
PrefetchStart(tk, page, startKey) ==
  LET called == [tk EXCEPT !.phase = "prefetch", !.i = 1,
                   !.lastEvaluatedKey = startKey, !.started = TRUE,
                   !.pfFrom = page, !.pfKey = startKey, !.result = NoResult]
  IN IF PrefetchContinues(1, startKey)
       THEN [called EXCEPT !.pc = "awaiting", !.pfetches = 1]
       ELSE [called EXCEPT !.pc = "done"]

\* variant: a query that failed is issued again
GetResumeRetries(t) ==
  /\ tasks[t].pc = "ready"
  /\ tasks[t].phase = "get"
  /\ LET tk == tasks[t]
         result == tk.result
         lek == result.LastEvaluatedKey
         cacheKey == CacheKey(tk.customerId, tk.currentPage, tk.limit)
     IN IF ~result.ok
          THEN /\ tasks' = [tasks EXCEPT ![t].pc = "awaiting",
                              ![t].result = NoResult,
                              ![t].fetches = tk.fetches + 1]
               /\ cache' = cache
          ELSE /\ cache' = CacheSet(cache, cacheKey, lek, tk.ver)
               /\ IF lek = Absent \/ tk.currentPage = tk.page
                    THEN LET resp == [status |-> 200, orders |-> result.Items,
                                      hasNextPage |-> (lek # Absent)]
                             answered == [tk EXCEPT !.resp = resp,
                                            !.lastEvaluatedKey = lek,
                                            !.result = NoResult, !.pc = "done"]
                         IN tasks' = [tasks EXCEPT ![t] =
                               IF lek # Absent
                                 THEN PrefetchStart(answered, tk.page, lek)
                                 ELSE answered]
                    ELSE tasks' = [tasks EXCEPT ![t] =
                           [tk EXCEPT !.pc = "awaiting",
                              !.lastEvaluatedKey = lek,
                              !.currentPage = tk.currentPage + 1,
                              !.fetches = tk.fetches + 1,
                              !.result = NoResult]]
  /\ UNCHANGED <<store, now, acked, fresh, nreq>>

\* variant: only the cursor of the last page fetched is cached
GetResumeSetsLastOnly(t) ==
  /\ tasks[t].pc = "ready"
  /\ tasks[t].phase = "get"
  /\ LET tk == tasks[t]
         result == tk.result
         lek == result.LastEvaluatedKey
         cacheKey == CacheKey(tk.customerId, tk.currentPage, tk.limit)
     IN IF ~result.ok
          THEN /\ tasks' = [tasks EXCEPT ![t].pc = "done",
                              ![t].result = NoResult,
                              ![t].resp = [NoResp EXCEPT !.status = 500]]
               /\ cache' = cache
          ELSE /\ cache' = IF lek = Absent \/ tk.currentPage = tk.page
                             THEN CacheSet(cache, cacheKey, lek, tk.ver)
                             ELSE cache
               /\ IF lek = Absent \/ tk.currentPage = tk.page
                    THEN LET resp == [status |-> 200, orders |-> result.Items,
                                      hasNextPage |-> (lek # Absent)]
                             answered == [tk EXCEPT !.resp = resp,
                                            !.lastEvaluatedKey = lek,
                                            !.result = NoResult, !.pc = "done"]
                         IN tasks' = [tasks EXCEPT ![t] =
                               IF lek # Absent
                                 THEN PrefetchStart(answered, tk.page, lek)
                                 ELSE answered]
                    ELSE tasks' = [tasks EXCEPT ![t] =
                           [tk EXCEPT !.pc = "awaiting",
                              !.lastEvaluatedKey = lek,
                              !.currentPage = tk.currentPage + 1,
                              !.fetches = tk.fetches + 1,
                              !.result = NoResult]]
  /\ UNCHANGED <<store, now, acked, fresh, nreq>>

\* variant: the loop ends at the requested page only
GetResumeNoEndBreak(t) ==
  /\ tasks[t].pc = "ready"
  /\ tasks[t].phase = "get"
  /\ LET tk == tasks[t]
         result == tk.result
         lek == result.LastEvaluatedKey
         cacheKey == CacheKey(tk.customerId, tk.currentPage, tk.limit)
     IN IF ~result.ok
          THEN /\ tasks' = [tasks EXCEPT ![t].pc = "done",
                              ![t].result = NoResult,
                              ![t].resp = [NoResp EXCEPT !.status = 500]]
               /\ cache' = cache
          ELSE /\ cache' = CacheSet(cache, cacheKey, lek, tk.ver)
               /\ IF tk.currentPage = tk.page
                    THEN LET resp == [status |-> 200, orders |-> result.Items,
                                      hasNextPage |-> (lek # Absent)]
                             answered == [tk EXCEPT !.resp = resp,
                                            !.lastEvaluatedKey = lek,
                                            !.result = NoResult, !.pc = "done"]
                         IN tasks' = [tasks EXCEPT ![t] =
                               IF lek # Absent
                                 THEN PrefetchStart(answered, tk.page, lek)
                                 ELSE answered]
                    ELSE tasks' = [tasks EXCEPT ![t] =
                           [tk EXCEPT !.pc = "awaiting",
                              !.lastEvaluatedKey = lek,
                              !.currentPage = tk.currentPage + 1,
                              !.fetches = tk.fetches + 1,
                              !.result = NoResult]]
  /\ UNCHANGED <<store, now, acked, fresh, nreq>>

\* getCustomerPageItems resumes after the await; on its return the handler
\* starts the prefetch and sends the response
GetResume(t) ==
  /\ tasks[t].pc = "ready"
  /\ tasks[t].phase = "get"
  /\ LET tk == tasks[t]
         result == tk.result
         lek == result.LastEvaluatedKey
         cacheKey == CacheKey(tk.customerId, tk.currentPage, tk.limit)
     IN IF ~result.ok
          THEN /\ tasks' = [tasks EXCEPT ![t].pc = "done",
                              ![t].result = NoResult,
                              ![t].resp = [NoResp EXCEPT !.status = 500]]
               /\ cache' = cache
          ELSE /\ cache' = CacheSet(cache, cacheKey, lek, tk.ver)
               /\ IF lek = Absent \/ tk.currentPage = tk.page
                    THEN LET resp == [status |-> 200, orders |-> result.Items,
                                      hasNextPage |-> (lek # Absent)]
                             answered == [tk EXCEPT !.resp = resp,
                                            !.lastEvaluatedKey = lek,
                                            !.result = NoResult, !.pc = "done"]
                         IN tasks' = [tasks EXCEPT ![t] =
                               IF lek # Absent
                                 THEN PrefetchStart(answered, tk.page, lek)
                                 ELSE answered]
                    ELSE tasks' = [tasks EXCEPT ![t] =
                           [tk EXCEPT !.pc = "awaiting",
                              !.lastEvaluatedKey = lek,
                              !.currentPage = tk.currentPage + 1,
                              !.fetches = tk.fetches + 1,
                              !.result = NoResult]]
  /\ UNCHANGED <<store, now, acked, fresh, nreq>>

\* variant: the handler awaits the prefetch and reports its failure
PrefetchResumeAwaited(t) ==
  /\ tasks[t].pc = "ready"
  /\ tasks[t].phase = "prefetch"
  /\ LET tk == tasks[t]
         result == tk.result
         lek == result.LastEvaluatedKey
         cacheKey == CacheKey(tk.customerId, tk.page + tk.i, tk.limit)
     IN IF ~result.ok
          THEN /\ tasks' = [tasks EXCEPT ![t].pc = "done",
                              ![t].result = NoResult, ![t].stopped = TRUE,
                              ![t].failed = TRUE,
                              ![t].resp = [NoResp EXCEPT !.status = 500]]
               /\ cache' = cache
          ELSE /\ cache' = CacheSet(cache, cacheKey, lek, tk.ver)
               /\ LET set == [tk EXCEPT !.i = tk.i + 1,
                                !.lastEvaluatedKey = lek,
                                !.stopped = (lek = Absent),
                                !.result = NoResult]
                  IN tasks' = [tasks EXCEPT ![t] =
                       IF tk.i + 1 <= PREFETCH_PAGES /\ lek # Absent
                         THEN [set EXCEPT !.pc = "awaiting",
                                 !.pfetches = tk.pfetches + 1]
                         ELSE [set EXCEPT !.pc = "done"]]
  /\ UNCHANGED <<store, now, acked, fresh, nreq>>

\* prefetchNextPages resumes after the await
PrefetchResume(t) ==
  /\ tasks[t].pc = "ready"
  /\ tasks[t].phase = "prefetch"
  /\ LET tk == tasks[t]
         result == tk.result
         lek == result.LastEvaluatedKey
         nextPage == tk.page + tk.i
         cacheKey == CacheKey(tk.customerId, nextPage, tk.limit)
     IN IF ~result.ok
          THEN /\ tasks' = [tasks EXCEPT ![t].pc = "done",
                              ![t].result = NoResult, ![t].stopped = TRUE,
                              ![t].failed = TRUE]
               /\ cache' = cache
          ELSE /\ cache' = CacheSet(cache, cacheKey, lek, tk.ver)
               /\ LET set == [tk EXCEPT !.i = tk.i + 1,
                                !.lastEvaluatedKey = lek,
                                !.stopped = (lek = Absent),
                                !.result = NoResult]
                  IN tasks' = [tasks EXCEPT ![t] =
                       IF PrefetchContinues(tk.i + 1, lek)
                         THEN [set EXCEPT !.pc = "awaiting",
                                 !.pfetches = tk.pfetches + 1]
                         ELSE [set EXCEPT !.pc = "done"]]
  /\ UNCHANGED <<store, now, acked, fresh, nreq>>

\* The promise of prefetchNextPages is neither awaited nor given a rejection
\* handler (line 35), and the function catches nothing: a query that rejects
\* leaves an unhandled rejection.  Node.js before version 15 only warns, which
\* is the failure branch of PrefetchResume; from version 15 on the process
\* exits, and what serves the next request starts with an empty cache.
PrefetchCrash(t) ==
  /\ tasks[t].pc = "ready"
  /\ tasks[t].phase = "prefetch"
  /\ ~tasks[t].result.ok
  /\ cache' = <<>>
  /\ tasks' = [u \in Slots |-> IdleTask]
  /\ UNCHANGED <<store, now, acked, fresh, nreq>>

\* ---------------------------------------------------------------- write request
\* JavaScript values of the fields of req.body
Undefined == [type |-> "undefined", n |-> 0, s |-> ""]
Num(n) == [type |-> "number", n |-> n, s |-> ""]
Str(s) == [type |-> "string", n |-> 0, s |-> s]

\* !v
Falsy(v) ==
  \/ v.type = "undefined"
  \/ v.type = "number" /\ v.n = 0
  \/ v.type = "string" /\ v.s = ""

Body(customerId, orderNumber, orderValue, orderDate) ==
  [CustomerID |-> customerId, OrderNumber |-> orderNumber,
   OrderValue |-> orderValue, OrderDate |-> orderDate]

\* complete bodies, and bodies with one field missing or zero
Bodies ==
  {Body(Str(k), Str("o"), Num(7), Num(d)) : k \in Customers, d \in Dates}
    \cup {Body(Undefined, Str("o"), Num(7), Num(1)),
          Body(Str("a"), Undefined, Num(7), Num(1)),
          Body(Str("a"), Str("o"), Undefined, Num(1)),
          Body(Str("a"), Str("o"), Num(0), Num(1)),
          Body(Str("a"), Str("o"), Num(7), Undefined)}

\* ghost: the body carries all four fields
AllPresent(body) ==
  /\ body.CustomerID # Undefined /\ body.OrderNumber # Undefined
  /\ body.OrderValue # Undefined /\ body.OrderDate # Undefined

\* app.post('/orders') up to the await of the PutCommand
PostStart(t, body) ==
  /\ Free(t)
  /\ IF Falsy(body.CustomerID) \/ Falsy(body.OrderNumber)
        \/ Falsy(body.OrderValue) \/ Falsy(body.OrderDate)
       THEN tasks' = [tasks EXCEPT ![t] =
              [IdleTask EXCEPT !.pc = "done", !.phase = "post",
                 !.present = AllPresent(body),
                 !.resp = [NoResp EXCEPT !.status = 400]]]
       ELSE tasks' = [tasks EXCEPT ![t] =
              [IdleTask EXCEPT !.pc = "awaiting", !.phase = "post",
                 !.present = AllPresent(body),
                 !.customerId = body.CustomerID.s,
                 !.date = body.OrderDate.n]]
  /\ nreq' = nreq + 1
  /\ UNCHANGED <<store, cache, now, acked, fresh>>

\* docClient.send(PutCommand): the store adds the order to the partition
StorePut(t) ==
  /\ tasks[t].pc = "awaiting"
  /\ tasks[t].phase = "post"
  /\ LET k == tasks[t].customerId IN
     /\ store' = [store EXCEPT ![k] = store[k] \cup {tasks[t].date}]
     /\ tasks' = [tasks EXCEPT
           ![t].pc = "ready",
           ![t].result = [NoResult EXCEPT !.ok = TRUE],
           ![t].ver = Cardinality(store'[k])]
  /\ UNCHANGED <<cache, now, acked, fresh, nreq>>

\* variant: the cache of the customer is invalidated after a failed write too
PostResumeAlwaysInvalidates(t) ==
  /\ tasks[t].pc = "ready"
  /\ tasks[t].phase = "post"
  /\ LET tk == tasks[t]
         k == tk.customerId
     IN /\ cache' = invalidateCustomerCache(cache, k)
        /\ IF ~tk.result.ok
             THEN /\ tasks' = [tasks EXCEPT ![t].pc = "done",
                                 ![t].result = NoResult,
                                 ![t].resp = [NoResp EXCEPT !.status = 500]]
                  /\ UNCHANGED <<acked, fresh>>
             ELSE /\ tasks' = [tasks EXCEPT ![t].pc = "done",
                                 ![t].result = NoResult,
                                 ![t].resp = [NoResp EXCEPT !.status = 201],
                                 ![t].removed =
                                    Cardinality(DOMAIN cache) - Cardinality(DOMAIN cache')]
                  /\ acked' = [acked EXCEPT ![k] = IF tk.ver > @ THEN tk.ver ELSE @]
                  /\ fresh' = [fresh EXCEPT ![k] = TRUE]
  /\ UNCHANGED <<store, now, nreq>>

\* the write handler resumes after the await: invalidate, then answer
PostResume(t) ==
  /\ tasks[t].pc = "ready"
  /\ tasks[t].phase = "post"
  /\ LET tk == tasks[t]
         k == tk.customerId
     IN IF ~tk.result.ok
          THEN /\ tasks' = [tasks EXCEPT ![t].pc = "done",
                              ![t].result = NoResult,
                              ![t].resp = [NoResp EXCEPT !.status = 500]]
               /\ UNCHANGED <<cache, acked, fresh>>
          ELSE /\ cache' = invalidateCustomerCache(cache, k)
               /\ tasks' = [tasks EXCEPT ![t].pc = "done",
                              ![t].result = NoResult,
                              ![t].resp = [NoResp EXCEPT !.status = 201],
                              ![t].removed =
                                 Cardinality(DOMAIN cache) - Cardinality(DOMAIN cache')]
               /\ acked' = [acked EXCEPT ![k] = IF tk.ver > @ THEN tk.ver ELSE @]
               /\ fresh' = [fresh EXCEPT ![k] = TRUE]
  /\ UNCHANGED <<store, now, nreq>>

NextRead ==
  \/ \E t \in Slots, p \in Pages, s \in Limits : StartGet(t, "a", p, s)
  \/ \E t \in Slots : StoreQuery(t)
  \/ \E t \in Slots : StoreFail(t)
  \/ \E t \in Slots : GetResume(t)
  \/ \E t \in Slots : PrefetchResume(t)
  \/ \E t \in Slots : PrefetchCrash(t)

SpecRead == Init /\ [][NextRead]_vars

Next ==
  \/ \E t \in Slots, k \in Customers, p \in Pages, s \in Limits :
        StartGet(t, k, p, s)
  \/ \E t \in Slots : StoreQuery(t)
  \/ \E t \in Slots : StoreFail(t)
  \/ \E t \in Slots : GetResume(t)
  \/ \E t \in Slots : PrefetchResume(t)
  \/ \E t \in Slots : PrefetchCrash(t)
  \/ \E t \in Slots, body \in Bodies : PostStart(t, body)
  \/ \E t \in Slots : StorePut(t)
  \/ \E t \in Slots : PostResume(t)

\* every customer has MaxDate - 2 orders before the first write
InitW == Init /\ store = [k \in Customers |-> 1..(MaxDate - 2)]

\* ------------------------------------------------------ time
\* the instants at which the clock is observed: the first seconds, and the
\* seconds around one time-to-live later
Instants == {0, 1, STD_TTL, STD_TTL + 1}

\* time passes, while no handler runs, until the instant `later`
Tick(later) ==
  /\ later > now
  /\ now' = later
  /\ UNCHANGED <<store, cache, tasks, acked, fresh, nreq>>

NextTTL ==
  \/ \E t \in Slots, p \in Pages : StartGet(t, "a", p, 1)
  \/ \E t \in Slots : StoreQuery(t)
  \/ \E t \in Slots : GetResume(t)
  \/ \E t \in Slots : PrefetchResume(t)
  \/ \E later \in Instants : Tick(later)

\* page requests of one customer at page size 1 while time passes
SpecTTL == InitW /\ [][NextTTL]_vars

\* ------------------------------------------------------ failing cache calls
\* cache.get throws in getCustomerPageItems (line 62): the rejection reaches
\* the catch block of the handler
StartGetCacheThrows(t, customerId, page, limit) ==
  /\ Free(t)
  /\ page > 1
  /\ tasks' = [tasks EXCEPT ![t] =
       [IdleTask EXCEPT !.pc = "done", !.phase = "get",
          !.customerId = customerId, !.page = page, !.limit = limit,
          !.cacheErr = TRUE,
          !.resp = [NoResp EXCEPT !.status = 500]]]
  /\ nreq' = nreq + 1
  /\ UNCHANGED <<store, cache, now, acked, fresh>>

\* cache.set throws in getCustomerPageItems (line 75) after a query that
\* succeeded: the rejection reaches the catch block of the handler
GetResumeCacheThrows(t) ==
  /\ tasks[t].pc = "ready"
  /\ tasks[t].phase = "get"
  /\ tasks[t].result.ok
  /\ tasks' = [tasks EXCEPT ![t].pc = "done", ![t].result = NoResult,
                 ![t].cacheErr = TRUE,
                 ![t].resp = [NoResp EXCEPT !.status = 500]]
  /\ UNCHANGED <<store, cache, now, acked, fresh, nreq>>

\* invalidateCustomerCache throws (line 145) inside the try block of the write
\* handler, after the PutCommand was applied: the catch block answers 500
PostResumeCacheThrows(t) ==
  /\ tasks[t].pc = "ready"
  /\ tasks[t].phase = "post"
  /\ tasks[t].result.ok
  /\ tasks' = [tasks EXCEPT ![t].pc = "done", ![t].result = NoResult,
                 ![t].cacheErr = TRUE,
                 ![t].resp = [NoResp EXCEPT !.status = 500]]
  /\ UNCHANGED <<store, cache, now, acked, fresh, nreq>>

NextCacheFail ==
  \/ Next
  \/ \E t \in Slots, k \in Customers, p \in Pages, s \in Limits :
        StartGetCacheThrows(t, k, p, s)
  \/ \E t \in Slots : GetResumeCacheThrows(t)
  \/ \E t \in Slots : PostResumeCacheThrows(t)

Spec == InitW /\ [][Next]_vars

\* the requests of Spec with a cache whose calls may throw
SpecCacheFail == InitW /\ [][NextCacheFail]_vars

\* ------------------------------------------------------ customer id as prefix
\* two customers, the id of the second beginning with the id of the first
\* followed by the separator of the cache keys
PrefixCustomers == {"a", "a_lastEvaluatedKey_b"}

InitPrefix ==
  /\ store = [k \in PrefixCustomers |-> 1..(MaxDate - 2)]
  /\ cache = <<>>
  /\ now = 0
  /\ tasks = [t \in Slots |-> IdleTask]
  /\ acked = [k \in PrefixCustomers |-> 0]
  /\ fresh = [k \in PrefixCustomers |-> FALSE]
  /\ nreq = 0

PrefixBodies ==
  {Body(Str(k), Str("o"), Num(7), Num(d)) : k \in PrefixCustomers, d \in Dates}

NextPrefix ==
  \/ \E t \in Slots, k \in PrefixCustomers, p \in Pages, s \in Limits :
        StartGet(t, k, p, s)
  \/ \E t \in Slots : StoreQuery(t)
  \/ \E t \in Slots : StoreFail(t)
  \/ \E t \in Slots : GetResume(t)
  \/ \E t \in Slots : PrefetchResume(t)
  \/ \E t \in Slots : PrefetchCrash(t)
  \/ \E t \in Slots, body \in PrefixBodies : PostStart(t, body)
  \/ \E t \in Slots : StorePut(t)
  \/ \E t \in Slots : PostResume(t)

SpecPrefix == InitPrefix /\ [][NextPrefix]_vars

\* ---------------------------------------------------------------- reference
RECURSIVE Walk(_, _, _, _, _)
\* the loop of getCustomerPageItems with no cache: fetch after fetch from
\* currentPage on, until the requested page or the end of the partition
Walk(part, limit, cursor, currentPage, page) ==
  LET result == queryCustomerOrders(part, limit, cursor)
  IN IF result.LastEvaluatedKey = Absent \/ currentPage = page
       THEN [result |-> result, reached |-> currentPage]
       ELSE Walk(part, limit, result.LastEvaluatedKey, currentPage + 1, page)

\* sequential replay from page 1
Replay(part, page, limit) == Walk(part, limit, Absent, 1, page)

\* page p, at page size limit, of a partition read in descending order
PageItems(part, p, limit) ==
  LET desc == TakeDesc(part, Cardinality(part))
      first == (p - 1) * limit + 1
      last == Min2(p * limit, Len(desc))
  IN IF first > last THEN <<>> ELSE SubSeq(desc, first, last)

\* the first page for which the store reports no LastEvaluatedKey: the first
\* one with fewer than limit items
LastPage(part, limit) == (Cardinality(part) \div limit) + 1

\* a page request that has been answered with a page
Answered(t) ==
  tasks[t].phase \in {"get", "prefetch"} /\ tasks[t].resp.status = 200

\* the entry of the cache under a key, live or not
Entry(c, key) == IF key \in DOMAIN c THEN <<c[key].v, c[key].t>> ELSE <<>>

\* the keys of every (customer, page number, page size)
PageSpecKeys ==
  {CacheKey(k, n, s) : k \in Customers, n \in KeyPages, s \in Limits}

\* the keys of one customer at one page size
KeysOf(customerId, limit) == {CacheKey(customerId, n, limit) : n \in KeyPages}

\* ---------------------------------------------------------------- claims

\* C1: with no write to the store, every page returned by getCustomerPageItems
\* holds exactly the items a cache-free replay from page 1 yields for the
\* requested page, whatever the cache held when the request started.
ChainCorrectness ==
  \A t \in Slots :
    Answered(t) =>
      tasks[t].resp.orders =
        Replay(store[tasks[t].customerId], tasks[t].page, tasks[t].limit).result.Items

\* C2: with no write to the store, every cache entry present for
\* (customer k, page n, page size s) holds the LastEvaluatedKey that page n of
\* k at page size s produces.
CacheEntryInvariant ==
  \A k \in Customers, n \in KeyPages, s \in Limits :
    CacheKey(k, n, s) \in DOMAIN cache =>
      LET w == Replay(store[k], n, s)
      IN /\ w.reached = n
         /\ cache[CacheKey(k, n, s)].v = w.result.LastEvaluatedKey

\* C3: a page request that started from the cached cursor of the previous page
\* issues at most one query.
WarmSingleFetch ==
  \A t \in Slots :
    (/\ tasks[t].phase \in {"get", "prefetch"}
     /\ tasks[t].page > 1
     /\ tasks[t].startKey # Absent
     /\ LET w == Replay(store[tasks[t].customerId], tasks[t].page - 1, tasks[t].limit)
        IN w.reached = tasks[t].page - 1
             /\ tasks[t].startKey = w.result.LastEvaluatedKey)
      => tasks[t].fetches <= 1

\* C4: from the invalidation of customer k until the next page request for k
\* starts, the cursor a request for any page n > 1 of k would start from is
\* absent, so that the request replays the chain from page 1.
InvalidationEffective ==
  \A k \in Customers, n \in KeyPages, s \in Limits :
    fresh[k] => StartCursor(cache, k, n + 1, s) = Absent

\* C5: the cache holds no entry of customer k whose cursor was computed from a
\* state of the store older than the last acknowledged write to k.
NoEntryOutlivesWrite ==
  \A k \in Customers, n \in KeyPages, s \in Limits :
    CacheKey(k, n, s) \in DOMAIN cache =>
      cache[CacheKey(k, n, s)].ver >= acked[k]

\* C6: the step of the write handler that invalidates customer k leaves no
\* cache entry of k, for any page number and any page size.
InvalidateRemovesAll ==
  [][\A t \in Slots :
       (/\ tasks[t].phase = "post"
        /\ tasks[t].pc = "ready"
        /\ tasks'[t].resp.status = 201)
         => \A n \in KeyPages, s \in Limits :
              CacheKey(tasks[t].customerId, n, s) \notin DOMAIN cache']_vars

\* C6 witness: an acknowledged write whose invalidation removed entries
InvalidateRemovesAllWitness ==
  \E t \in Slots :
    tasks[t].phase = "post" /\ tasks[t].resp.status = 201 /\ tasks[t].removed >= 2

\* C7: one prefetch issues at most PREFETCH_PAGES queries, and has no query
\* pending or issued once a query of it returned no LastEvaluatedKey or failed.
PrefetchBound ==
  \A t \in Slots :
    /\ tasks[t].pfetches <= PREFETCH_PAGES
    /\ tasks[t].stopped => tasks[t].pc = "done"
    /\ (tasks[t].phase = "prefetch" /\ tasks[t].pc \in {"awaiting", "ready"})
         => tasks[t].lastEvaluatedKey # Absent

\* C7 witness: a prefetch that ended after PREFETCH_PAGES queries with a
\* cursor still in hand
PrefetchBoundWitness ==
  \E t \in Slots :
    /\ tasks[t].phase = "prefetch" /\ tasks[t].pc = "done"
    /\ tasks[t].pfetches = PREFETCH_PAGES
    /\ ~tasks[t].stopped
    /\ tasks[t].lastEvaluatedKey # Absent

\* C8: hasNextPage of an answered page request is true exactly when the
\* requested page produced a LastEvaluatedKey, and prefetchNextPages was called
\* exactly when hasNextPage is true, with the requested page number and the
\* LastEvaluatedKey the request ended with.
HasNextExact ==
  \A t \in Slots :
    Answered(t) =>
      LET w == Replay(store[tasks[t].customerId], tasks[t].page, tasks[t].limit)
      IN /\ tasks[t].resp.hasNextPage =
              (w.reached = tasks[t].page /\ w.result.LastEvaluatedKey # Absent)
         /\ tasks[t].started = tasks[t].resp.hasNextPage
         /\ tasks[t].started =>
              /\ tasks[t].pfFrom = tasks[t].page
              /\ tasks[t].pfKey = w.result.LastEvaluatedKey

\* C9: whenever the prefetch of a request is in progress or over, the response
\* of the request exists already, and no step of the prefetch changes it.
PrefetchDecoupled ==
  [][\A t \in Slots :
       tasks'[t].phase = "prefetch" =>
         /\ tasks'[t].resp.status = 200
         /\ tasks[t].phase = "prefetch" => tasks'[t].resp = tasks[t].resp]_vars

\* C9 witness: a prefetch that failed after its request was answered
PrefetchDecoupledWitness ==
  \E t \in Slots :
    tasks[t].phase = "prefetch" /\ tasks[t].failed /\ tasks[t].resp.status = 200

\* C10: two cache keys are equal only for equal customer, page number and
\* page size, and a step of a page request or of its prefetch leaves every
\* entry of another customer or another page size as it was.
KeyIsolation ==
  [][/\ Cardinality(PageSpecKeys) =
          Cardinality(Customers) * Cardinality(KeyPages) * Cardinality(Limits)
     /\ \A t \in Slots :
          (tasks'[t] # tasks[t] /\ tasks'[t].phase \in {"get", "prefetch"}) =>
            \A key \in DOMAIN cache \cup DOMAIN cache' :
              Entry(cache', key) # Entry(cache, key) =>
                key \in KeysOf(tasks'[t].customerId, tasks'[t].limit)]_vars

\* C10 witness: entries of both customers, at different page sizes, with
\* different cursors under the same page number
KeyIsolationWitness ==
  \E n \in KeyPages :
    /\ CacheKey("a", n, 1) \in DOMAIN cache
    /\ CacheKey("b", n, 2) \in DOMAIN cache
    /\ cache[CacheKey("a", n, 1)].v # cache[CacheKey("b", n, 2)].v

WriteOrdering ==
  [][\A t \in Slots :
       (tasks'[t].phase = "post" /\ tasks'[t] # tasks[t]) =>
         IF tasks[t].phase = "post" /\ tasks[t].pc = "ready" /\ tasks[t].result.ok
           THEN /\ tasks[t].date \in store[tasks[t].customerId]
                /\ tasks'[t].pc = "done"
                /\ tasks'[t].resp.status = 201
                /\ DOMAIN cache' \subseteq DOMAIN cache
                /\ \A n \in KeyPages, s \in Limits :
                     CacheKey(tasks[t].customerId, n, s) \notin DOMAIN cache'
           ELSE /\ cache' = cache
                /\ tasks'[t].resp.status # 201]_vars

\* C12 witness: a write that failed in the store and was answered 500 while
\* the cache holds entries of its customer
WriteOrderingWitness ==
  \E t \in Slots :
    /\ tasks[t].phase = "post" /\ tasks[t].resp.status = 500
    /\ \E n \in KeyPages, s \in Limits :
         CacheKey(tasks[t].customerId, n, s) \in DOMAIN cache

\* C13: a request in which a cache call failed ends as it would have without
\* the failure: a write whose PutCommand was applied is answered 201, a page
\* request is answered with the page a cache-free replay yields.
CacheFailureNonFatal ==
  \A t \in Slots :
    tasks[t].cacheErr =>
      IF tasks[t].phase = "post"
        THEN tasks[t].resp.status = 201
        ELSE /\ Answered(t)
             /\ tasks[t].resp.orders =
                  Replay(store[tasks[t].customerId], tasks[t].page,
                         tasks[t].limit).result.Items

\* C14: when a query of getCustomerPageItems failed, the step in which the
\* request resumes ends it with status 500 and issues no query; a page request
\* answered 500 is over and has started no prefetch.  (A request is idle again
\* only when the process exited, which is no step of the request.)
StoreFailureNoRetry ==
  [][\A t \in Slots :
       /\ (/\ tasks[t].phase = "get" /\ tasks[t].pc = "ready"
           /\ ~tasks[t].result.ok /\ tasks'[t] # tasks[t]
           /\ tasks'[t].pc # "idle")
            => /\ tasks'[t].phase = "get"
               /\ tasks'[t].pc = "done"
               /\ tasks'[t].resp.status = 500
               /\ tasks'[t].fetches = tasks[t].fetches
       /\ (tasks'[t].phase = "get" /\ tasks'[t].resp.status = 500)
            => /\ tasks'[t].pc = "done"
               /\ ~tasks'[t].started
               /\ tasks'[t].pfetches = 0]_vars

\* C14 witness: a page request answered 500 whose second or later query failed
StoreFailureNoRetryWitness ==
  \E t \in Slots :
    /\ tasks[t].phase = "get" /\ tasks[t].resp.status = 500
    /\ ~tasks[t].cacheErr /\ tasks[t].fetches >= 2

\* C15: a page request that finds the entry of the previous page older than
\* STD_TTL seconds starts as on a miss, with no cursor and from page 1; and
\* the entry a step of getCustomerPageItems or prefetchNextPages sets, new or
\* overwritten, expires STD_TTL seconds after that step.
TTLExpiry ==
  [][\A t \in Slots :
       /\ (/\ tasks[t].pc \in {"idle", "done"}
           /\ tasks'[t].phase = "get" /\ tasks'[t].pc = "awaiting"
           /\ tasks'[t].page > 1
           /\ LET key == CacheKey(tasks'[t].customerId, tasks'[t].page - 1,
                                  tasks'[t].limit)
              IN key \in DOMAIN cache /\ now > cache[key].t)
            => /\ tasks'[t].startKey = Absent
               /\ tasks'[t].lastEvaluatedKey = Absent
               /\ tasks'[t].currentPage = 1
       /\ (/\ tasks[t].pc = "ready" /\ tasks[t].phase \in {"get", "prefetch"}
           /\ tasks[t].result.ok /\ tasks'[t] # tasks[t])
            => LET key == CacheKey(tasks[t].customerId,
                             IF tasks[t].phase = "get" THEN tasks[t].currentPage
                                ELSE tasks[t].page + tasks[t].i,
                             tasks[t].limit)
               IN key \in DOMAIN cache' /\ cache'[key].t = now + STD_TTL]_vars

\* C15 witness: an answered request that found the entry of the previous page
\* expired, and an entry set after the clock had advanced
TTLExpiryWitness ==
  /\ \E t \in Slots : tasks[t].lookup = "expired" /\ Answered(t)
  /\ \E key \in DOMAIN cache : cache[key].t > STD_TTL

\* C16: a write request whose body carries all four fields is not rejected
\* with status 400, whatever the values of the fields; a write request whose
\* body lacks a field is answered 400, has written nothing to the store and
\* has invalidated nothing.
WriteValidation ==
  \A t \in Slots :
    tasks[t].phase = "post" =>
      IF tasks[t].present
        THEN tasks[t].resp.status # 400
        ELSE /\ tasks[t].resp.status = 400
             /\ tasks[t].ver = NoVer
             /\ tasks[t].removed = 0

\* C17 (as stated): a page request for page n > 1 that found no entry for
\* page n - 1 and has been answered has fetched the n pages 1..n.
ColdReplayFetchesAll ==
  \A t \in Slots :
    (Answered(t) /\ tasks[t].lookup = "miss") => tasks[t].fetches = tasks[t].page

\* C17 (amended): a page request for page n > 1 that found no entry for page
\* n - 1 fetches page 1 with no cursor, then page after page, each once and
\* with the LastEvaluatedKey of the page before, up to page n or up to the
\* first page that produces no LastEvaluatedKey; the step that resumes from
\* the fetch of page p stores its LastEvaluatedKey under (k, p, s) and only
\* then issues the fetch of page p + 1.
ColdReplay ==
  [][\A t \in Slots :
       LET tk == tasks[t]
           nx == tasks'[t]
           k == nx.customerId
           s == nx.limit
       IN /\ (nx.lookup = "miss" /\ nx.phase = "get"
                /\ nx.pc \in {"awaiting", "ready"}) =>
               /\ nx.fetches = nx.currentPage
               /\ nx.currentPage <= nx.page
               /\ nx.lastEvaluatedKey =
                    IF nx.currentPage = 1 THEN Absent
                    ELSE Replay(store[k], nx.currentPage - 1, s).result.LastEvaluatedKey
               /\ nx.currentPage > 1 => nx.lastEvaluatedKey # Absent
               /\ \A p \in 1..(nx.currentPage - 1) : CacheKey(k, p, s) \in DOMAIN cache'
          /\ (nx.lookup = "miss" /\ nx.resp.status = 200) =>
               nx.fetches = Replay(store[k], nx.page, s).reached
          /\ (/\ tk.lookup = "miss" /\ tk.phase = "get" /\ tk.pc = "ready"
              /\ tk.result.ok /\ nx # tk /\ nx.pc # "idle") =>
               /\ cache'[CacheKey(k, tk.currentPage, s)].v = tk.result.LastEvaluatedKey
               /\ IF tk.result.LastEvaluatedKey # Absent /\ tk.currentPage < tk.page
                    THEN /\ nx.pc = "awaiting" /\ nx.phase = "get"
                         /\ nx.currentPage = tk.currentPage + 1
                         /\ nx.lastEvaluatedKey = tk.result.LastEvaluatedKey
                    ELSE /\ nx.resp.status = 200
                         /\ nx.fetches = tk.fetches]_vars

\* C17 witness: an answered request for page 3 or above that found no entry
\* for the page before and fetched every page up to the requested one
ColdReplayWitness ==
  \E t \in Slots :
    /\ Answered(t) /\ tasks[t].lookup = "miss"
    /\ tasks[t].page >= 3 /\ tasks[t].fetches = tasks[t].page

\* C18: for a prefetch called with the LastEvaluatedKey that page fromPage
\* produces, the step that resumes from its i-th query has received page
\* fromPage + i and stores the LastEvaluatedKey of that page under
\* (k, fromPage + i, s); when the i-th query failed, the entries of the pages
\* fromPage + 1 .. fromPage + i - 1 are in the cache after the step as before.
PrefetchStepCorrect ==
  [][\A t \in Slots :
       LET tk == tasks[t]
           k == tk.customerId
           s == tk.limit
           from == Replay(store[k], tk.pfFrom, s)
           w == Replay(store[k], tk.pfFrom + tk.i, s)
       IN (/\ tk.phase = "prefetch" /\ tk.pc = "ready" /\ tasks'[t] # tk
           /\ from.reached = tk.pfFrom
           /\ tk.pfKey = from.result.LastEvaluatedKey) =>
            IF tk.result.ok
              THEN tasks'[t].phase = "prefetch" =>
                     /\ tk.i = tk.pfetches
                     /\ w.reached = tk.pfFrom + tk.i
                     /\ tk.result.Items = w.result.Items
                     /\ CacheKey(k, tk.pfFrom + tk.i, s) \in DOMAIN cache'
                     /\ cache'[CacheKey(k, tk.pfFrom + tk.i, s)].v =
                          w.result.LastEvaluatedKey
              ELSE \A j \in 1..(tk.i - 1) :
                     /\ CacheKey(k, tk.pfFrom + j, s) \in DOMAIN cache'
                     /\ Entry(cache', CacheKey(k, tk.pfFrom + j, s)) =
                          Entry(cache, CacheKey(k, tk.pfFrom + j, s))]_vars

InvalidationFrame ==
  [][\A t \in Slots :
       (/\ tasks[t].phase = "post" /\ tasks[t].pc = "ready"
        /\ tasks'[t].resp.status = 201) =>
         \A k \in PrefixCustomers \ {tasks[t].customerId},
            n \in KeyPages, s \in Limits :
           Entry(cache', CacheKey(k, n, s)) = Entry(cache, CacheKey(k, n, s))]_vars
====
